---- MODULE Spec2Model ----
(***************************************************************************)
(* Transaction engine (palozano/transaction-engine).                       *)
(*                                                                         *)
(* Three specifications over one set of variables:                         *)
(*   Spec     - the program: Engine::process_transactions replaying a      *)
(*              stream of records against the account directory            *)
(*              (behaviors.rs, engine.rs, accounts.rs, transactions.rs).   *)
(*   AcctSpec - the Account API called directly on one Account, as the     *)
(*              unit tests of accounts.rs do (credit, debit, dispute,      *)
(*              resolve, chargeback).                                      *)
(*   EngineSpec - the program as in Spec with the observers left alone,   *)
(*              for properties that quantify over pairs of records.        *)
(*                                                                         *)
(* Funds (rust_decimal::Decimal) are modelled as integers counted in the   *)
(* smallest unit in use; checked_add / checked_sub fail outside            *)
(* -MaxFunds .. MaxFunds, which stands for Decimal::MIN .. Decimal::MAX.   *)
(***************************************************************************)
EXTENDS Integers, FiniteSets, Sequences, TLC

VARIABLES
    accounts,   \* Accounts(HashMap<Client, Account>): the account directory
    ledger,     \* Engine.ledger: HashMap<Tx, Transaction>
    pc,         \* process_transactions: "running", "failed" (record? returned Err) or "done"
    last,       \* observer: the record handed to Engine::process last, and its result
    accepted,   \* observer: every transaction for which Engine::process returned Ok
    scen,       \* observer: progress through deposit; dispute; chargeback; deposit
    acc,        \* AcctSpec: the Account under direct calls
    op          \* AcctSpec observer: the last direct call and its result

vars == <<accounts, ledger, pc, last, accepted, scen, acc, op>>

----------------------------------------------------------------------------
(* Bounds *)

\* NumTx: the tx-ids of the input; MaxFunds: the largest Funds value.
NumTx == 2
MaxFunds == 3

Clients == {1, 2}
TxIds == 1..NumTx

----------------------------------------------------------------------------
(* Option<Funds> and checked arithmetic *)

None == [some |-> FALSE, v |-> 0]
Some(x) == [some |-> TRUE, v |-> x]

checked_add(a, b) ==
    IF a + b > MaxFunds \/ a + b < -MaxFunds THEN None ELSE Some(a + b)

checked_sub(a, b) ==
    IF a - b > MaxFunds \/ a - b < -MaxFunds THEN None ELSE Some(a - b)

----------------------------------------------------------------------------
(* Transactions *)

TxTypes == {"Deposit", "Withdrawal", "Dispute", "Resolve", "Chargeback"}

\* The amounts a parsed record can carry: absent, negative, zero, positive
\* (the smallest and the largest positive value).
PositiveFunds == 1..MaxFunds
AmountFields == {None} \cup {Some(x) : x \in {-1, 0, 1, MaxFunds}}

Transaction ==
    [variant : TxTypes, client : Clients, tx : TxIds, amount : AmountFields]

\* Mutant: is_valid looks at the sign of the amount before the kind.
is_valid_sign_first(t) ==
    IF t.amount.some /\ t.amount.v <= 0
    THEN "NonPositiveAmount"
    ELSE IF t.variant \in {"Deposit", "Withdrawal"} /\ ~t.amount.some
    THEN "MissingAmount"
    ELSE IF t.variant \in {"Dispute", "Resolve", "Chargeback"} /\ t.amount.some
    THEN "AmountPresent"
    ELSE "Ok"

is_valid(t) ==
    IF t.variant \in {"Deposit", "Withdrawal"} /\ ~t.amount.some
    THEN "MissingAmount"
    ELSE IF t.variant \in {"Dispute", "Resolve", "Chargeback"} /\ t.amount.some
    THEN "AmountPresent"
    ELSE IF t.amount.some /\ t.amount.v <= 0
    THEN "NonPositiveAmount"
    ELSE "Ok"

----------------------------------------------------------------------------
(* Account *)

NoDisputes == [t \in {} |-> 0]

AccountNew(client) ==
    [client |-> client, available |-> 0, held |-> 0, total |-> 0,
     locked |-> FALSE, disputed_transactions |-> NoDisputes]

\* Every Account method is modelled as a function from the account (and the
\* arguments) to the account it leaves behind and the result it returns; the
\* account is returned as mutated so far when the method returns Err.
Ret(a, r) == [acc |-> a, res |-> r]

locked(a) == IF a.locked THEN "AccountLocked" ELSE "Ok"

get_disputed(a, tx) ==
    IF tx \in DOMAIN a.disputed_transactions
    THEN Some(a.disputed_transactions[tx])
    ELSE None

\* Mutant: update_total leaves total as it was.
update_total_stale(a) == Ret(a, "Ok")

update_total(a) ==
    LET value == checked_add(a.available, a.held) IN
    IF value.some THEN Ret([a EXCEPT !.total = value.v], "Ok")
    ELSE Ret(a, "Overflow")

credit(a, funds) ==
    IF locked(a) # "Ok" THEN Ret(a, locked(a))
    ELSE LET value == checked_add(a.available, funds) IN
         IF value.some THEN update_total([a EXCEPT !.available = value.v])
         ELSE Ret(a, "Overflow")

\* Mutant: debit refuses a withdrawal of the whole available balance.
debit_strict(a, funds) ==
    IF locked(a) # "Ok" THEN Ret(a, locked(a))
    ELSE IF a.available <= funds THEN Ret(a, "InsufficientFunds")
    ELSE LET value == checked_sub(a.available, funds) IN
         IF value.some THEN update_total([a EXCEPT !.available = value.v])
         ELSE Ret(a, "Underflow")

\* Mutant: debit without the insufficient-funds check.
debit_unchecked(a, funds) ==
    IF locked(a) # "Ok" THEN Ret(a, locked(a))
    ELSE LET value == checked_sub(a.available, funds) IN
         IF value.some THEN update_total([a EXCEPT !.available = value.v])
         ELSE Ret(a, "Underflow")

debit(a, funds) ==
    IF locked(a) # "Ok" THEN Ret(a, locked(a))
    ELSE IF a.available < funds THEN Ret(a, "InsufficientFunds")
    ELSE LET value == checked_sub(a.available, funds) IN
         IF value.some THEN update_total([a EXCEPT !.available = value.v])
         ELSE Ret(a, "Underflow")

MapPut(m, k, x) == [j \in DOMAIN m \cup {k} |-> IF j = k THEN x ELSE m[j]]
MapRemove(m, k) == [j \in DOMAIN m \ {k} |-> m[j]]

\* Mutant: dispute looks for an existing dispute before it checks the lock.
dispute_lock_late(a, funds, tx) ==
    IF tx \in DOMAIN a.disputed_transactions THEN Ret(a, "ExistingDispute")
    ELSE IF locked(a) # "Ok" THEN Ret(a, locked(a))
    ELSE IF a.available < funds THEN Ret(a, "InsufficientFunds")
    ELSE LET av == checked_sub(a.available, funds)
             hv == checked_add(a.held, funds) IN
         IF ~av.some THEN Ret(a, "Underflow")
         ELSE IF ~hv.some THEN Ret([a EXCEPT !.available = av.v], "Overflow")
         ELSE update_total(
                [a EXCEPT !.available = av.v, !.held = hv.v,
                          !.disputed_transactions = MapPut(@, tx, funds)])

dispute(a, funds, tx) ==
    IF locked(a) # "Ok" THEN Ret(a, locked(a))
    ELSE IF tx \in DOMAIN a.disputed_transactions THEN Ret(a, "ExistingDispute")
    ELSE IF a.available < funds THEN Ret(a, "InsufficientFunds")
    ELSE LET av == checked_sub(a.available, funds) IN
         IF ~av.some THEN Ret(a, "Underflow")
         ELSE LET a1 == [a EXCEPT !.available = av.v]
                  hv == checked_add(a1.held, funds) IN
              IF ~hv.some THEN Ret(a1, "Overflow")
              ELSE update_total(
                     [a1 EXCEPT !.held = hv.v,
                                !.disputed_transactions = MapPut(@, tx, funds)])

resolve(a, tx) ==
    IF locked(a) # "Ok" THEN Ret(a, locked(a))
    ELSE LET amount == get_disputed(a, tx) IN
         IF ~amount.some THEN Ret(a, "MissingDispute")
         ELSE LET hv == checked_sub(a.held, amount.v) IN
              IF ~hv.some THEN Ret(a, "Underflow")
              ELSE LET a1 == [a EXCEPT !.held = hv.v]
                       av == checked_add(a1.available, amount.v) IN
                   IF ~av.some THEN Ret(a1, "Overflow")
                   ELSE LET r == update_total([a1 EXCEPT !.available = av.v]) IN
                        IF r.res # "Ok" THEN r
                        ELSE Ret([r.acc EXCEPT !.disputed_transactions =
                                                   MapRemove(@, tx)], "Ok")

\* Mutant: chargeback flips the lock instead of setting it.
chargeback_toggles(a, tx) ==
    LET amount == get_disputed(a, tx) IN
    IF ~amount.some THEN Ret(a, "MissingDispute")
    ELSE LET hv == checked_sub(a.held, amount.v) IN
         IF ~hv.some THEN Ret(a, "Underflow")
         ELSE Ret([a EXCEPT !.held = hv.v,
                            !.locked = ~a.locked,
                            !.disputed_transactions = MapRemove(@, tx)], "Ok")

\* Mutant: chargeback recomputes total, as the other mutating methods do.
chargeback_updates_total(a, tx) ==
    LET amount == get_disputed(a, tx) IN
    IF ~amount.some THEN Ret(a, "MissingDispute")
    ELSE LET hv == checked_sub(a.held, amount.v) IN
         IF ~hv.some THEN Ret(a, "Underflow")
         ELSE update_total([a EXCEPT !.held = hv.v,
                                     !.locked = TRUE,
                                     !.disputed_transactions = MapRemove(@, tx)])

chargeback(a, tx) ==
    LET amount == get_disputed(a, tx) IN
    IF ~amount.some THEN Ret(a, "MissingDispute")
    ELSE LET hv == checked_sub(a.held, amount.v) IN
         IF ~hv.some THEN Ret(a, "Underflow")
         ELSE Ret([a EXCEPT !.held = hv.v,
                            !.locked = TRUE,
                            !.disputed_transactions = MapRemove(@, tx)], "Ok")

----------------------------------------------------------------------------
(* Accounts: the directory *)

NoAccounts == [c \in {} |-> 0]

\* Mutant: exists inserts a new account whether or not the client has one.
get_mut_resets(dir, client) ==
    [c \in DOMAIN dir \cup {client} |->
        IF c = client THEN AccountNew(client) ELSE dir[c]]

\* Accounts::exists followed by the lookup of Accounts::get_mut: the directory
\* with the client's account created when it was missing.
get_mut(dir, client) ==
    IF client \in DOMAIN dir THEN dir
    ELSE [c \in DOMAIN dir \cup {client} |->
            IF c = client THEN AccountNew(client) ELSE dir[c]]

----------------------------------------------------------------------------
(* Engine *)

NoLedger == [t \in {} |-> 0]

\* An Engine method returns the ledger and the account it leaves and its result.
ERet(l, a, r) == [ledger |-> l, acc |-> a, res |-> r]

get_transaction(l, tx) == IF tx \in DOMAIN l THEN Some(l[tx]) ELSE None

\* Mutant: process_deposit records the deposit before it looks at credit's result.
process_deposit_records_first(l, a, t) ==
    LET r == credit(a, t.amount.v) IN ERet(MapPut(l, t.tx, t), r.acc, r.res)

\* Mutant: process_deposit files the deposit under the client's id.
process_deposit_keyed_by_client(l, a, t) ==
    LET r == credit(a, t.amount.v) IN
    IF r.res # "Ok" THEN ERet(l, r.acc, r.res)
    ELSE ERet(MapPut(l, t.client, t), r.acc, "Ok")

process_deposit(l, a, t) ==
    LET r == credit(a, t.amount.v) IN
    IF r.res # "Ok" THEN ERet(l, r.acc, r.res)
    ELSE ERet(MapPut(l, t.tx, t), r.acc, "Ok")

\* Mutant: process_withdrawal records the withdrawal whatever debit returned.
process_withdrawal_records_always(l, a, t) ==
    LET r == debit(a, t.amount.v) IN ERet(MapPut(l, t.tx, t), r.acc, r.res)

process_withdrawal(l, a, t) ==
    LET r == debit(a, t.amount.v) IN
    IF r.res # "Ok" THEN ERet(l, r.acc, r.res)
    ELSE ERet(MapPut(l, t.tx, t), r.acc, "Ok")

\* transaction.amount.unwrap() on a dispute (whose amount is None once it is
\* valid) panics: the result "Panic".
process_dispute(l, a, t) ==
    LET past == get_transaction(l, t.tx) IN
    IF ~past.some THEN ERet(l, a, "MissingDispute")
    ELSE IF past.v.variant = "Deposit" THEN ERet(l, a, "OnlyDepositsCanBeDisputed")
    ELSE IF past.v.client # t.client THEN ERet(l, a, "WrongClient")
    ELSE IF ~t.amount.some THEN ERet(l, a, "Panic")
    ELSE LET r == dispute(a, t.amount.v, t.tx) IN ERet(l, r.acc, r.res)

\* Mutant: process_resolution takes a resolve of an unknown tx-id as done.
process_resolution_lenient(l, a, t) ==
    LET past == get_transaction(l, t.tx) IN
    IF ~past.some THEN ERet(l, a, "Ok")
    ELSE IF past.v.client # t.client THEN ERet(l, a, "WrongClient")
    ELSE LET r == resolve(a, t.tx) IN ERet(l, r.acc, r.res)

process_resolution(l, a, t) ==
    LET past == get_transaction(l, t.tx) IN
    IF ~past.some THEN ERet(l, a, "MissingDispute")
    ELSE IF past.v.client # t.client THEN ERet(l, a, "WrongClient")
    ELSE LET r == resolve(a, t.tx) IN ERet(l, r.acc, r.res)

process_chargeback(l, a, t) ==
    LET past == get_transaction(l, t.tx) IN
    IF ~past.some THEN ERet(l, a, "MissingDispute")
    ELSE IF past.v.client # t.client THEN ERet(l, a, "WrongClient")
    ELSE LET r == chargeback(a, t.tx) IN ERet(l, r.acc, r.res)

dispatch(l, a, t) ==
    CASE t.variant = "Deposit" -> process_deposit(l, a, t)
      [] t.variant = "Withdrawal" -> process_withdrawal(l, a, t)
      [] t.variant = "Dispute" -> process_dispute(l, a, t)
      [] t.variant = "Resolve" -> process_resolution(l, a, t)
      [] t.variant = "Chargeback" -> process_chargeback(l, a, t)

\* Mutant: process without the duplicate check.
process_no_duplicate_check(l, a, t) ==
    IF is_valid(t) # "Ok" THEN ERet(l, a, is_valid(t))
    ELSE dispatch(l, a, t)

process(l, a, t) ==
    IF is_valid(t) # "Ok" THEN ERet(l, a, is_valid(t))
    ELSE IF t.tx \in DOMAIN l THEN ERet(l, a, "DuplicateFound")
    ELSE dispatch(l, a, t)

----------------------------------------------------------------------------
(* Observers *)

NoTx == [variant |-> "None", client |-> 0, tx |-> 0, amount |-> None]
NoLast == [tx |-> NoTx, res |-> "None", created |-> FALSE, retry |-> FALSE]

\* The record t reuses the tx-id of the record processed just before it, a
\* deposit or withdrawal that was rejected and whose tx-id was not in the
\* ledger l0.
Retry(prev, t, l0) ==
    /\ prev.tx.variant \in {"Deposit", "Withdrawal"} /\ prev.res # "Ok"
    /\ prev.tx.tx \notin DOMAIN l0
    /\ t.variant \in {"Deposit", "Withdrawal"} /\ t.tx = prev.tx.tx

Balances(a) == [available |-> a.available, held |-> a.held, total |-> a.total]
NoBalances == [available |-> 0, held |-> 0, total |-> 0]
NoScen == [stage |-> 0, client |-> 0, tx |-> 0, amount |-> 0, snap |-> NoBalances]

\* The scenario deposit(c, t, A) for a fresh client c; dispute(c, t);
\* chargeback(c, t); deposit(c, t2, A2) with t2 a fresh tx-id: the stage
\* reached by the records processed last, each immediately after the other.
\* l0 is the ledger before the record, a1 the client's account after it.
ScenNext(s, t, res, created, l0, a1) ==
    IF t.variant = "Deposit" /\ res = "Ok" /\ created
    THEN [stage |-> 1, client |-> t.client, tx |-> t.tx, amount |-> t.amount.v,
          snap |-> NoBalances]
    ELSE IF s.stage = 1 /\ t.variant = "Dispute" /\ t.client = s.client
            /\ t.tx = s.tx /\ ~t.amount.some
    THEN [s EXCEPT !.stage = 2]
    ELSE IF s.stage = 2 /\ t.variant = "Chargeback" /\ t.client = s.client
            /\ t.tx = s.tx /\ ~t.amount.some
    THEN [s EXCEPT !.stage = 3, !.snap = Balances(a1)]
    ELSE IF s.stage = 3 /\ t.variant = "Deposit" /\ t.client = s.client
            /\ t.tx \notin DOMAIN l0 /\ t.tx # s.tx
            /\ t.amount.some /\ t.amount.v > 0
    THEN [s EXCEPT !.stage = 4]
    ELSE NoScen

NoOp == [name |-> "None", funds |-> 0, tx |-> 0, res |-> "None"]

----------------------------------------------------------------------------
(* Spec: process_transactions *)

Init ==
    /\ accounts = NoAccounts
    /\ ledger = NoLedger
    /\ pc = "running"
    /\ last = NoLast
    /\ accepted = {}
    /\ scen = NoScen
    /\ acc = AccountNew(1)
    /\ op = NoOp

\* Mutant: the loop propagates the error of process (self.process(..)?)
\* instead of logging it.
ProcessRecord_propagates(t) ==
    /\ pc = "running"
    /\ \E dir \in {get_mut(accounts, t.client)} :
       \E r \in {process(ledger, dir[t.client], t)} :
          /\ accounts' = [dir EXCEPT ![t.client] = r.acc]
          /\ ledger' = r.ledger
          /\ last' = [tx |-> t, res |-> r.res,
                      created |-> t.client \notin DOMAIN accounts,
                      retry |-> Retry(last, t, ledger)]
          /\ accepted' = IF r.res = "Ok" THEN accepted \cup {t} ELSE accepted
          /\ scen' = ScenNext(scen, t, r.res, t.client \notin DOMAIN accounts,
                              ledger, r.acc)
          /\ pc' = IF r.res = "Ok" THEN "running" ELSE "failed"
    /\ UNCHANGED <<acc, op>>

\* Mutant: the loop looks the account up on a scratch copy of the directory
\* and keeps the copy only when process returned Ok.
ProcessRecord_lazy(t) ==
    /\ pc = "running"
    /\ \E dir \in {get_mut(accounts, t.client)} :
       \E r \in {process(ledger, dir[t.client], t)} :
          /\ accounts' = IF r.res = "Ok" THEN [dir EXCEPT ![t.client] = r.acc]
                         ELSE accounts
          /\ ledger' = r.ledger
          /\ last' = [tx |-> t, res |-> r.res,
                      created |-> t.client \notin DOMAIN accounts,
                      retry |-> Retry(last, t, ledger)]
          /\ accepted' = IF r.res = "Ok" THEN accepted \cup {t} ELSE accepted
          /\ scen' = ScenNext(scen, t, r.res, t.client \notin DOMAIN accounts,
                              ledger, r.acc)
          /\ pc' = IF r.res = "Panic" THEN "panicked" ELSE "running"
    /\ UNCHANGED <<acc, op>>

\* One iteration of the loop over a parsed record: get_mut, then process; an
\* Err from process is logged and the loop goes on. A panic inside process
\* unwinds out of process_transactions.
ProcessRecord(t) ==
    /\ pc = "running"
    /\ \E dir \in {get_mut(accounts, t.client)} :
       \E r \in {process(ledger, dir[t.client], t)} :
          /\ accounts' = [dir EXCEPT ![t.client] = r.acc]
          /\ ledger' = r.ledger
          /\ last' = [tx |-> t, res |-> r.res,
                      created |-> t.client \notin DOMAIN accounts,
                      retry |-> Retry(last, t, ledger)]
          /\ accepted' = IF r.res = "Ok" THEN accepted \cup {t} ELSE accepted
          /\ scen' = ScenNext(scen, t, r.res, t.client \notin DOMAIN accounts,
                              ledger, r.acc)
          /\ pc' = IF r.res = "Panic" THEN "panicked" ELSE "running"
    /\ UNCHANGED <<acc, op>>

\* record? on a record the source could not parse: process_transactions
\* returns Err and nothing more is processed.
MalformedRecord ==
    /\ pc = "running"
    /\ pc' = "failed"
    /\ UNCHANGED <<accounts, ledger, last, accepted, scen, acc, op>>

\* The iterator is exhausted: process_transactions returns Ok(()).
EndOfInput ==
    /\ pc = "running"
    /\ pc' = "done"
    /\ UNCHANGED <<accounts, ledger, last, accepted, scen, acc, op>>

Next ==
    \/ \E t \in Transaction : ProcessRecord(t)
    \/ MalformedRecord
    \/ EndOfInput

Spec == Init /\ [][Next]_vars

----------------------------------------------------------------------------
(* AcctSpec: direct calls on one Account *)

AcctInit == Init

Call(name, funds, tx, r) ==
    /\ acc' = r.acc
    /\ op' = [name |-> name, funds |-> funds, tx |-> tx, res |-> r.res]
    /\ UNCHANGED <<accounts, ledger, pc, last, accepted, scen>>

Credit(funds) == Call("credit", funds, 0, credit(acc, funds))
Debit(funds) == Call("debit", funds, 0, debit(acc, funds))
Dispute(funds, tx) == Call("dispute", funds, tx, dispute(acc, funds, tx))
Resolve(tx) == Call("resolve", 0, tx, resolve(acc, tx))
Chargeback(tx) == Call("chargeback", 0, tx, chargeback(acc, tx))

AcctNext ==
    \/ \E f \in PositiveFunds : Credit(f)
    \/ \E f \in PositiveFunds : Debit(f)
    \/ \E f \in PositiveFunds, t \in TxIds : Dispute(f, t)
    \/ \E t \in TxIds : Resolve(t)
    \/ \E t \in TxIds : Chargeback(t)

AcctSpec == AcctInit /\ [][AcctNext]_vars

----------------------------------------------------------------------------
(* EngineSpec: process_transactions without the observers *)

\* The body of the loop as a function of the directory, the ledger and the
\* record: the directory and the ledger it leaves and the result of process.
process_record(dir, l, t) ==
    LET d == get_mut(dir, t.client)
        r == process(l, d[t.client], t)
    IN [accounts |-> [d EXCEPT ![t.client] = r.acc],
        ledger |-> r.ledger, res |-> r.res]

EngineInit == Init

ProcessUnobserved(t) ==
    /\ pc = "running"
    /\ \E r \in {process_record(accounts, ledger, t)} :
          /\ accounts' = r.accounts
          /\ ledger' = r.ledger
          /\ pc' = IF r.res = "Panic" THEN "panicked" ELSE "running"
    /\ UNCHANGED <<last, accepted, scen, acc, op>>

EngineNext ==
    \/ \E t \in Transaction : ProcessUnobserved(t)
    \/ MalformedRecord
    \/ EndOfInput

EngineSpec == EngineInit /\ [][EngineNext]_vars

----------------------------------------------------------------------------
(* Claims *)

\* The step just taken by process_transactions processed the record last'.tx
\* (MalformedRecord and EndOfInput leave pc = "running").
Processed == pc' = "running"

\* C1: after any sequence of transactions applied through
\* process_transactions, every account of the directory has
\* total = available + held.
C1_TotalIsAvailablePlusHeld ==
    \A c \in DOMAIN accounts :
        accounts[c].total = accounts[c].available + accounts[c].held

C1_Witness ==
    /\ last.tx.variant = "Withdrawal" /\ last.res = "Ok"
    /\ accounts[last.tx.client].total > 0
    /\ Cardinality(DOMAIN ledger) = 2

\* C2: whenever Engine::process returns an error, the ledger is unchanged and
\* every account that existed before the call is exactly as it was.
C2_ErrorLeavesNoTrace ==
    [][(Processed /\ last'.res # "Ok") =>
          /\ ledger' = ledger
          /\ \A c \in DOMAIN accounts : accounts'[c] = accounts[c]]_vars

C2_Witness ==
    /\ last.res = "Overflow" /\ ~last.created
    /\ accounts[last.tx.client].available > 0

\* C3: once an account is locked it stays locked, whatever account operation
\* is called on it next and whether that operation succeeds or fails.
C3_LockedIsMonotonic ==
    [][/\ acc.locked => acc'.locked
       /\ \A c \in DOMAIN accounts : accounts[c].locked => accounts'[c].locked]_vars

C3_Witness ==
    /\ acc.locked /\ op.name = "credit" /\ op.res = "AccountLocked"
    /\ DOMAIN acc.disputed_transactions # {}

C5_DisputeAfterDepositApplied ==
    scen.stage = 2 =>
        /\ accounts[scen.client].available = 0
        /\ accounts[scen.client].held = scen.amount
        /\ accounts[scen.client].total = scen.amount

\* C6: after deposit(c, t, A); dispute(c, t); chargeback(c, t) for a fresh
\* client c, held is 0 and locked is true, and a next deposit for c with a
\* fresh tx-id is rejected with account-locked and leaves the balances as
\* they were.
C6_ChargebackScenario ==
    /\ scen.stage = 3 =>
          /\ accounts[scen.client].held = 0
          /\ accounts[scen.client].locked
    /\ scen.stage = 4 =>
          /\ last.res = "AccountLocked"
          /\ Balances(accounts[scen.client]) = scen.snap

\* C7: the ledger holds an entry for t exactly when a Deposit or Withdrawal
\* with tx-id t was accepted earlier, the entry being that transaction; no
\* dispute, resolve or chargeback is ever inserted, and an entry is never
\* overwritten or removed.
C7_LedgerState ==
    /\ DOMAIN ledger =
          {t.tx : t \in {a \in accepted : a.variant \in {"Deposit", "Withdrawal"}}}
    /\ \A k \in DOMAIN ledger :
          /\ ledger[k] \in accepted
          /\ ledger[k].tx = k
          /\ ledger[k].variant \in {"Deposit", "Withdrawal"}

C7_LedgerStep ==
    \A k \in DOMAIN ledger : k \in DOMAIN ledger' /\ ledger'[k] = ledger[k]

C7_LedgerAppendOnly == []C7_LedgerState /\ [][C7_LedgerStep]_vars

C7_Witness ==
    /\ Cardinality(DOMAIN ledger) = 2
    /\ \E k \in DOMAIN ledger : ledger[k].variant = "Withdrawal"
    /\ last.tx.variant = "Dispute" /\ last.tx.tx \in DOMAIN ledger
    /\ last.res # "Ok"

\* C8: on a locked account credit, debit, dispute and resolve fail with
\* account-locked whatever their arguments (before any other check) and leave
\* the account as it was.
C8_LockedRejects ==
    [][(acc.locked /\ op'.name \in {"credit", "debit", "dispute", "resolve"}) =>
          /\ op'.res = "AccountLocked"
          /\ acc' = acc]_vars

C8_Witness ==
    /\ acc.locked /\ op.name = "dispute" /\ op.res = "AccountLocked"
    /\ op.tx \in DOMAIN acc.disputed_transactions

\* C9: a withdrawal (debit on the client's unlocked account) fails with
\* insufficient-funds exactly when amount > available; a failed withdrawal
\* changes neither the account nor the ledger; when amount <= available,
\* available and total decrease by amount and held is unchanged.
C9_Withdrawal ==
    [][(/\ Processed
        /\ last'.tx.variant = "Withdrawal"
        /\ is_valid(last'.tx) = "Ok"
        /\ last'.tx.tx \notin DOMAIN ledger
        /\ ~get_mut(accounts, last'.tx.client)[last'.tx.client].locked) =>
          LET c == last'.tx.client
              f == last'.tx.amount.v
              a0 == get_mut(accounts, c)[c]
              a1 == accounts'[c]
          IN /\ last'.res = "InsufficientFunds" <=> f > a0.available
             /\ last'.res # "Ok" => (a1 = a0 /\ ledger' = ledger)
             /\ f <= a0.available =>
                   /\ last'.res = "Ok"
                   /\ a1.available = a0.available - f
                   /\ a1.total = a0.total - f
                   /\ a1.held = a0.held]_vars

C9_Witness ==
    /\ last.tx.variant = "Withdrawal" /\ last.res = "InsufficientFunds"
    /\ ~last.created
    /\ accounts[last.tx.client].available > 0
    /\ Cardinality(DOMAIN ledger) = 1

C11_TotalRecomputedAfterEveryCall ==
    op.res = "Ok" => acc.total = acc.available + acc.held

\* C12: on an unlocked account dispute(amount, tx) fails with
\* existing-dispute when tx is an open dispute, else with insufficient-funds
\* when amount > available, the account unchanged in both cases; otherwise
\* available goes down and held up by amount, total is unchanged and
\* open_disputes[tx] = amount.
C12_Dispute ==
    [][(~acc.locked /\ op'.name = "dispute") =>
          LET f == op'.funds
              t == op'.tx
              open == DOMAIN acc.disputed_transactions
          IN /\ t \in open => (op'.res = "ExistingDispute" /\ acc' = acc)
             /\ (t \notin open /\ f > acc.available) =>
                   (op'.res = "InsufficientFunds" /\ acc' = acc)
             /\ (t \notin open /\ f <= acc.available) =>
                   /\ op'.res = "Ok"
                   /\ acc'.available = acc.available - f
                   /\ acc'.held = acc.held + f
                   /\ acc'.total = acc.total
                   /\ acc'.disputed_transactions =
                         MapPut(acc.disputed_transactions, t, f)]_vars

\* C13: on an unlocked account resolve(tx) fails with missing-dispute and
\* changes nothing when tx is not an open dispute; otherwise it moves the
\* amount recorded for tx from held back to available, keeps total and
\* removes tx from the open disputes.
C13_Resolve ==
    [][(~acc.locked /\ op'.name = "resolve") =>
          LET t == op'.tx
              open == DOMAIN acc.disputed_transactions
          IN /\ t \notin open => (op'.res = "MissingDispute" /\ acc' = acc)
             /\ t \in open =>
                   /\ op'.res = "Ok"
                   /\ acc'.held = acc.held - acc.disputed_transactions[t]
                   /\ acc'.available =
                         acc.available + acc.disputed_transactions[t]
                   /\ acc'.total = acc.total
                   /\ acc'.disputed_transactions =
                         MapRemove(acc.disputed_transactions, t)]_vars

\* C14: validation succeeds exactly when the amount is present and positive
\* for Deposit/Withdrawal and absent for Dispute/Resolve/Chargeback; it fails
\* with missing-amount (Deposit/Withdrawal without amount), amount-present
\* (Dispute/Resolve/Chargeback with any amount, whatever its sign) or
\* non-positive-amount (Deposit/Withdrawal with amount <= 0); Engine::process
\* rejects an invalid transaction before the duplicate check and before any
\* account operation.
C14_Expected(t) ==
    IF t.variant \in {"Deposit", "Withdrawal"}
    THEN IF ~t.amount.some THEN "MissingAmount"
         ELSE IF t.amount.v <= 0 THEN "NonPositiveAmount"
         ELSE "Ok"
    ELSE IF t.amount.some THEN "AmountPresent" ELSE "Ok"

C14_Validation ==
    [][Processed =>
          /\ C14_Expected(last'.tx) # "Ok" =>
                /\ last'.res = C14_Expected(last'.tx)
                /\ ledger' = ledger
                /\ \A c \in DOMAIN accounts : accounts'[c] = accounts[c]
                /\ \A c \in DOMAIN accounts' \ DOMAIN accounts :
                      accounts'[c] = AccountNew(c)
          /\ C14_Expected(last'.tx) = "Ok" =>
                last'.res \notin
                   {"MissingAmount", "AmountPresent", "NonPositiveAmount"}]_vars

C14_Witness ==
    /\ last.res = "AmountPresent" /\ last.tx.variant = "Chargeback"
    /\ last.tx.amount.v < 0
    /\ last.tx.tx \in DOMAIN ledger

\* C15: an error of one transaction is local to it: a step that processes a
\* record, accepted or rejected, leaves process_transactions running, so the
\* records after it are processed in order and the call returns Ok at the
\* end of the input; the loop stops only at the end of the input or at a
\* malformed record, and stopping applies nothing: the effects of the
\* earlier records are kept and nothing is processed afterwards.
C15_State == pc \in {"running", "failed", "done"}

C15_Step ==
    /\ (last' # last \/ accounts' # accounts \/ ledger' # ledger) =>
          (pc = "running" /\ pc' = "running")
    /\ pc' # pc =>
          /\ pc = "running" /\ pc' \in {"failed", "done"}
          /\ UNCHANGED <<accounts, ledger, last, accepted>>
    /\ pc # "running" => UNCHANGED <<accounts, ledger, pc, last>>

C15_ErrorsAreLocal == []C15_State /\ [][C15_Step]_vars

\* Every record of some client was rejected, a later record of another client
\* was accepted, and the call returned Ok.
C15_Witness ==
    /\ pc = "done"
    /\ last.res = "Ok"
    /\ \E c \in DOMAIN accounts :
          /\ c # last.tx.client
          /\ \A k \in DOMAIN ledger : ledger[k].client # c

DisputeFamily == {"Dispute", "Resolve", "Chargeback"}

\* The step changed no account that existed and gave a client created by it
\* the zero account.
AccountsUntouched ==
    /\ \A c \in DOMAIN accounts : accounts'[c] = accounts[c]
    /\ \A c \in DOMAIN accounts' \ DOMAIN accounts : accounts'[c] = AccountNew(c)

\* C16 as stated: a dispute, resolve or chargeback transaction whose tx-id
\* has no entry in the ledger is rejected with missing-dispute and changes no
\* account.
C16_Original ==
    [][(Processed /\ last'.tx.variant \in DisputeFamily
        /\ last'.tx.tx \notin DOMAIN ledger) =>
          (last'.res = "MissingDispute" /\ AccountsUntouched)]_vars

\* C16 as amended: a dispute, resolve or chargeback transaction whose tx-id
\* has no entry in the ledger is rejected, with missing-dispute when it
\* carries no amount and with amount-present when it carries one, and
\* changes neither the ledger nor any account.
C16_MissingDispute ==
    [][(Processed /\ last'.tx.variant \in DisputeFamily
        /\ last'.tx.tx \notin DOMAIN ledger) =>
          /\ last'.res = IF last'.tx.amount.some THEN "AmountPresent"
                         ELSE "MissingDispute"
          /\ ledger' = ledger
          /\ AccountsUntouched]_vars

C16_Witness ==
    /\ last.tx.variant = "Resolve" /\ last.res = "MissingDispute"
    /\ ~last.created
    /\ accounts[last.tx.client].available > 0
    /\ last.tx.tx \notin DOMAIN ledger

\* C17 as stated: for an account with available = held = total = 0, an
\* accepted deposit of A immediately followed by a withdrawal of A with a
\* tx-id different from the deposit's is accepted and leaves
\* available = held = total = 0.
C17_AfterDeposit ==
    /\ last.tx.variant = "Deposit" /\ last.res = "Ok"
    /\ accounts[last.tx.client].available = last.tx.amount.v
    /\ accounts[last.tx.client].held = 0
    /\ accounts[last.tx.client].total = last.tx.amount.v
    /\ ~accounts[last.tx.client].locked

C17_WithdrawsSame ==
    /\ Processed
    /\ last'.tx.variant = "Withdrawal"
    /\ last'.tx.client = last.tx.client
    /\ last'.tx.amount = last.tx.amount
    /\ last'.tx.tx # last.tx.tx

C17_BackToZero ==
    /\ last'.res = "Ok"
    /\ Balances(accounts'[last'.tx.client]) = NoBalances

C17_Original ==
    [][(C17_AfterDeposit /\ C17_WithdrawsSame) => C17_BackToZero]_vars

\* C17 as amended: the same, for a withdrawal whose tx-id is not in the
\* ledger (different from the deposit's and from every other accepted
\* deposit or withdrawal).
C17_RoundTrip ==
    [][(C17_AfterDeposit /\ C17_WithdrawsSame
        /\ last'.tx.tx \notin DOMAIN ledger) => C17_BackToZero]_vars

C17_Witness ==
    /\ last.tx.variant = "Withdrawal" /\ last.res = "Ok"
    /\ Balances(accounts[last.tx.client]) = NoBalances
    /\ Cardinality(DOMAIN ledger) = 2
    /\ \E k \in DOMAIN ledger :
          /\ ledger[k].variant = "Deposit"
          /\ ledger[k].client = last.tx.client
          /\ ledger[k].amount = last.tx.amount

\* C18: the directory creates a client's entry on the first reference, with
\* available = held = total = 0, unlocked and without open disputes; a later
\* reference returns the existing account with its state kept; no entry is
\* ever removed, and the other clients' entries are not touched.
C18_Directory ==
    [][/\ DOMAIN accounts \subseteq DOMAIN accounts'
       /\ Processed =>
             LET t == last'.tx
                 c == last'.tx.client
             IN /\ DOMAIN accounts' = DOMAIN accounts \cup {c}
                /\ last'.created <=> c \notin DOMAIN accounts
                /\ \A d \in DOMAIN accounts \ {c} : accounts'[d] = accounts[d]
                /\ (c \notin DOMAIN accounts /\ last'.res # "Ok") =>
                      accounts'[c] = AccountNew(c)
                /\ (c \notin DOMAIN accounts /\ last'.res = "Ok"
                    /\ t.variant = "Deposit") =>
                      accounts'[c] = [AccountNew(c) EXCEPT
                                         !.available = t.amount.v,
                                         !.total = t.amount.v]
                /\ (c \in DOMAIN accounts /\ last'.res # "Ok") =>
                      accounts'[c] = accounts[c]
                /\ (c \in DOMAIN accounts /\ last'.res = "Ok"
                    /\ t.variant = "Deposit") =>
                      accounts'[c] = [accounts[c] EXCEPT
                                         !.available = @ + t.amount.v,
                                         !.total = @ + t.amount.v]]_vars

C18_Witness ==
    /\ DOMAIN accounts = Clients
    /\ ~last.created /\ last.res = "Ok" /\ last.tx.variant = "Deposit"
    /\ accounts[last.tx.client].available > last.tx.amount.v

\* C19: a dispute processed by the engine whose tx-id refers to a ledger
\* entry of kind Deposit fails with only-deposits-can-be-disputed.
C19_DisputeOfDeposit ==
    [][(Processed /\ last'.tx.variant = "Dispute"
        /\ last'.tx.tx \in DOMAIN ledger
        /\ ledger[last'.tx.tx].variant = "Deposit") =>
          last'.res = "OnlyDepositsCanBeDisputed"]_vars

\* C20: a dispute, resolve or chargeback processed by the engine whose tx-id
\* refers to a ledger entry recorded for another client fails with
\* wrong-client and changes no account.
C20_WrongClient ==
    [][(Processed /\ last'.tx.variant \in DisputeFamily
        /\ last'.tx.tx \in DOMAIN ledger
        /\ ledger[last'.tx.tx].client # last'.tx.client) =>
          (last'.res = "WrongClient" /\ AccountsUntouched)]_vars

\* C21: chargeback is not gated by the lock: on a locked account that still
\* has an open dispute on tx, chargeback(tx) succeeds, held decreases by the
\* recorded amount and tx leaves the open disputes; chargeback of a tx with
\* no open dispute fails with missing-dispute, not account-locked.
C21_ChargebackIgnoresLock ==
    [][(acc.locked /\ op'.name = "chargeback") =>
          LET t == op'.tx
              open == DOMAIN acc.disputed_transactions
          IN /\ t \in open =>
                   /\ op'.res = "Ok"
                   /\ acc'.held = acc.held - acc.disputed_transactions[t]
                   /\ acc'.disputed_transactions =
                         MapRemove(acc.disputed_transactions, t)
             /\ t \notin open => (op'.res = "MissingDispute" /\ acc' = acc)]_vars

\* C22: no dispute, resolve or chargeback ever succeeds through
\* Engine::process: once valid it is rejected with duplicate-found when its
\* tx-id is in the ledger and with missing-dispute when it is not; so in
\* every state reachable through the engine every account has held = 0,
\* locked = false and no open disputes.
C22_State ==
    \A c \in DOMAIN accounts :
        /\ accounts[c].held = 0
        /\ ~accounts[c].locked
        /\ accounts[c].disputed_transactions = NoDisputes

C22_Step ==
    (Processed /\ last'.tx.variant \in DisputeFamily) =>
        /\ last'.res # "Ok"
        /\ is_valid(last'.tx) = "Ok" =>
              last'.res = IF last'.tx.tx \in DOMAIN ledger
                          THEN "DuplicateFound" ELSE "MissingDispute"

C23_CreditOverflowLeavesBalances ==
    [][(op'.name = "credit" /\ op'.res = "Overflow") =>
          Balances(acc') = Balances(acc)]_vars

RECURSIVE SumOf(_)
\* The sum of the amounts recorded in an open-dispute index.
SumOf(m) ==
    IF DOMAIN m = {} THEN 0
    ELSE LET k == CHOOSE j \in DOMAIN m : TRUE IN m[k] + SumOf(MapRemove(m, k))

\* C24: in every account state reachable by account operations with
\* positive amounts the open-dispute index holds exactly the tx-ids disputed
\* and not yet resolved or charged back (a tx-id enters it with a successful
\* dispute, leaves it with a successful resolve or chargeback, and nothing
\* else changes it), and held is the sum of the amounts recorded in it.
C24_State == acc.held = SumOf(acc.disputed_transactions)

C24_Step ==
    acc'.disputed_transactions =
        IF op'.name = "dispute" /\ op'.res = "Ok"
        THEN MapPut(acc.disputed_transactions, op'.tx, op'.funds)
        ELSE IF op'.name \in {"resolve", "chargeback"} /\ op'.res = "Ok"
        THEN MapRemove(acc.disputed_transactions, op'.tx)
        ELSE acc.disputed_transactions

C24_OpenDisputes == []C24_State /\ [][C24_Step]_vars

\* C25: in every state reachable by account operations with positive
\* amounts, hence by engine-validated transactions, every account has
\* available >= 0 and held >= 0.
C25_NonNegative ==
    /\ acc.available >= 0 /\ acc.held >= 0
    /\ \A c \in DOMAIN accounts :
          accounts[c].available >= 0 /\ accounts[c].held >= 0

\* C26: debit and dispute never return underflow in a state reachable by
\* operations with positive amounts: the insufficient-funds check fails
\* first.
C26_UnderflowUnreachable ==
    op.name \in {"debit", "dispute"} => op.res # "Underflow"

\* A dispute of the whole balance at the largest amount.
C26_Witness ==
    /\ op.name = "dispute" /\ op.res = "Ok" /\ op.funds = MaxFunds
    /\ acc.available = 0 /\ acc.held = MaxFunds

\* C27: the tx-id of a rejected deposit or withdrawal is not recorded in the
\* ledger (the rejection leaves the ledger as it was), so a later deposit or
\* withdrawal with a tx-id that no accepted deposit or withdrawal carried is
\* never rejected as a duplicate and is processed normally: validated, then
\* credited or debited, and recorded when that succeeds.
C27_Step ==
    (Processed /\ last'.tx.variant \in {"Deposit", "Withdrawal"}) =>
        LET t == last'.tx
            a0 == get_mut(accounts, t.client)[t.client]
            a1 == accounts'[t.client]
        IN /\ last'.res # "Ok" => ledger' = ledger
           /\ t.tx \notin {a.tx : a \in accepted} =>
                 /\ last'.res # "DuplicateFound"
                 /\ is_valid(t) # "Ok" => last'.res = is_valid(t)
                 /\ (is_valid(t) = "Ok" /\ t.variant = "Deposit") =>
                       /\ last'.res = IF a0.available + t.amount.v <= MaxFunds
                                      THEN "Ok" ELSE "Overflow"
                       /\ last'.res = "Ok" =>
                             a1.available = a0.available + t.amount.v
                 /\ (is_valid(t) = "Ok" /\ t.variant = "Withdrawal") =>
                       /\ last'.res = IF t.amount.v <= a0.available
                                      THEN "Ok" ELSE "InsufficientFunds"
                       /\ last'.res = "Ok" =>
                             a1.available = a0.available - t.amount.v
                 /\ last'.res = "Ok" =>
                       ledger' = MapPut(ledger, t.tx, t)

C27_RejectedTxIdReusable == [][C27_Step]_vars

\* A withdrawal refused for insufficient funds, then a deposit and a
\* withdrawal reusing its tx-id: the last one accepted.
C27_Witness ==
    /\ last.retry /\ last.res = "Ok"
    /\ last.tx.variant = "Withdrawal"
    /\ ledger[last.tx.tx] = last.tx
    /\ Cardinality(DOMAIN ledger) = 2

\* C28 as stated: every parsed transaction, rejected ones included, for a
\* client not yet in the directory leaves a new account with zero balances
\* and locked = false in the directory.
C28_Original ==
    [][(Processed /\ last'.tx.client \notin DOMAIN accounts) =>
          /\ last'.tx.client \in DOMAIN accounts'
          /\ Balances(accounts'[last'.tx.client]) = NoBalances
          /\ ~accounts'[last'.tx.client].locked]_vars

\* C28 as amended: every parsed transaction for a client not yet in the
\* directory leaves a new, unlocked account for the client in the directory:
\* with zero balances when the transaction is rejected (at validation, as a
\* duplicate or by the operation), and with available = total = amount and
\* held = 0 when it is accepted, which only a deposit can be.
C28_AccountCreatedFirst ==
    [][(Processed /\ last'.tx.client \notin DOMAIN accounts) =>
          LET t == last'.tx
              c == last'.tx.client
          IN /\ c \in DOMAIN accounts'
             /\ ~accounts'[c].locked
             /\ last'.res # "Ok" => accounts'[c] = AccountNew(c)
             /\ last'.res = "Ok" =>
                   /\ t.variant = "Deposit"
                   /\ Balances(accounts'[c]) =
                         [available |-> t.amount.v, held |-> 0,
                          total |-> t.amount.v]]_vars

\* Scenario 6 with another client already funded: a dispute of an unknown
\* tx-id by a client met for the first time.
C28_Witness ==
    /\ last.created /\ last.res = "MissingDispute"
    /\ last.tx.variant = "Dispute"
    /\ accounts[last.tx.client] = AccountNew(last.tx.client)
    /\ \E d \in DOMAIN accounts : accounts[d].available > 0

\* C29: two consecutive transactions of different clients with different
\* tx-ids commute: from any reachable engine state, processing them in
\* either order gives each the same result and yields the same ledger and
\* the same directory; and processing a transaction of one client changes
\* no field of another client's account.
C29_Commute(t1, t2) ==
    \E a \in {process_record(accounts, ledger, t1)} :
    \E b \in {process_record(accounts, ledger, t2)} :
    \E ab \in {process_record(a.accounts, a.ledger, t2)} :
    \E ba \in {process_record(b.accounts, b.ledger, t1)} :
        /\ ba.res = a.res
        /\ ab.res = b.res
        /\ ab.ledger = ba.ledger
        /\ ab.accounts = ba.accounts

C29_OthersUntouched(t) ==
    \E a \in {process_record(accounts, ledger, t)} :
        \A d \in DOMAIN accounts \ {t.client} : a.accounts[d] = accounts[d]

C29_ClientsIndependent ==
    \A t1 \in Transaction :
        /\ C29_OthersUntouched(t1)
        /\ \A t2 \in Transaction :
              (t2.client # t1.client /\ t2.tx # t1.tx) => C29_Commute(t1, t2)

\* Both clients are in the directory, one funded by a recorded deposit, and
\* from here a withdrawal of that client is accepted while a deposit of the
\* other client, carrying the recorded tx-id, is rejected as a duplicate.
C29_Witness ==
    /\ pc = "running"
    /\ DOMAIN accounts = Clients
    /\ \E t1, t2 \in Transaction :
          /\ t1.client # t2.client /\ t1.tx # t2.tx
          /\ t1.variant = "Withdrawal" /\ t2.variant = "Deposit"
          /\ process_record(accounts, ledger, t1).res = "Ok"
          /\ process_record(accounts, ledger, t2).res = "DuplicateFound"

====
